---- MODULE Spec2Model ----
(***************************************************************************)
(* Redactor (Obsidian plugin, src/main.ts): the health monitor, the three  *)
(* orchestrators (redactFile, restoreCurrentNote, redactSelectedText), the *)
(* manual status check, the server settings and the vault files that are   *)
(* read and written, as a state machine.  Every await                      *)
(* of the source is a suspension point: an action of the model runs from   *)
(* the resumption of one await to the next await (or to the return).       *)
(***************************************************************************)
EXTENDS Naturals, Sequences, FiniteSets, TLC

(***************************************************************************)
(* Bounds of the model.                                                    *)
(***************************************************************************)
\* invocations of a command or a settings handler in one behaviour
MaxProcs == 2
\* polling probes (timer ticks) that may be in flight at the same time
MaxProbes == 1

(***************************************************************************)
(* Settings (DEFAULT_SETTINGS) and the universe of files.                  *)
(***************************************************************************)
redactFolder == "redact/redacted"
restoreFolder == "redact/reversed"
mapsFolder == "redact/maps"

\* A TFile is <<folder, file.name>>.  Two source notes share the file name
\* "n1.md" in different folders.
Docs == { <<"a", "n1.md">>, <<"b", "n1.md">> }

FileName(file) == file[2]

\* `${this.settings.redactFolder}/${file.name}`
RedactedPath(file) == <<redactFolder, FileName(file)>>
\* `${this.settings.mapsFolder}/${file.name}.map.json`
MapPath(file) == <<mapsFolder, FileName(file) \o ".map.json">>
\* `${this.settings.restoreFolder}/${file.name}`
RestoredPath(file) == <<restoreFolder, FileName(file)>>

\* A URL is a sequence of atoms: scheme, host, the rest; " " is white space.
DefaultUrl == << "http://", "localhost", ":8765" >>
\* what a user may have typed into the "Server URL" field
Urls ==
  { << " ", "http://", "localhost", ":8765", " " >>,
    << "http://", "localhost", ".evil.example", ":8765" >>,
    << "http://", "192.168.1.20", ":8765" >> }

\* s.startsWith(prefix)
StartsWith(s, prefix) ==
  Len(s) >= Len(prefix) /\ SubSeq(s, 1, Len(prefix)) = prefix

\* isLocalUrl(url)
isLocalUrl(url) ==
  \/ StartsWith(url, << "http://", "localhost" >>)
  \/ StartsWith(url, << "http://", "127.0.0.1" >>)

RECURSIVE Trim(_)
\* value.trim()
Trim(value) ==
  IF value = <<>> THEN value
  ELSE IF Head(value) = " " THEN Trim(Tail(value))
  ELSE IF value[Len(value)] = " " THEN Trim(SubSeq(value, 1, Len(value) - 1))
  ELSE value

RedactedFiles == { RedactedPath(d) : d \in Docs }
RestoredFiles == { RestoredPath(d) : d \in Docs }
MapFiles == { MapPath(d) : d \in Docs }
\* the notes a user can open in an editor
Notes == Docs \cup RedactedFiles \cup RestoredFiles
Paths == Notes \cup MapFiles
NoFile == <<"", "">>

(***************************************************************************)
(* Texts.  A text is a sequence of atoms: plain words, sensitive values    *)
(* and placeholder tokens.                                                 *)
(***************************************************************************)
Values == { "John", "Jane", "07911 123456" }
\* the entity category the service assigns to a value
Category(v) == IF v = "07911 123456" THEN "PHONE" ELSE "PERSON"
Labels == << "PERSON", "PHONE" >>
\* tokens are category-qualified and numbered within one detect call
TokenFor(label, k) == "[" \o label \o "_" \o ToString(k) \o "]"
Tokens == { TokenFor(Labels[l], k) : l \in 1..Len(Labels), k \in 1..2 }

\* a/n1.md names two persons; b/n1.md holds nothing the service detects
SourceText(d) ==
  IF d = <<"a", "n1.md">> THEN << "John", "met", "Jane" >> ELSE << "see", "you" >>

\* what a user may have selected in the editor at "Redact selected text"
Fragments == { <<>>, << "Jane" >>, << "07911 123456" >>, << "call" >> }

TokensIn(text) == { text[i] : i \in 1..Len(text) } \cap Tokens

EmptyMap == [t \in {} |-> ""]

(***************************************************************************)
(* File contents.                                                          *)
(***************************************************************************)
Absent == [kind |-> "absent"]
\* a map file that cannot be read or cannot be parsed
Corrupt == [kind |-> "corrupt"]
TextContent(text) == [kind |-> "text", text |-> text]

\* the map file written without its tokens
MapContentNoTokens(name, tokens) ==
  [kind |-> "map", file |-> name, tokens |-> [t \in {} |-> ""]]

\* MapFile {file, created, tokens} through JSON.stringify; the timestamp is
\* not modelled.
MapContent(name, tokens) == [kind |-> "map", file |-> name, tokens |-> tokens]

\* the parse that takes an unparsable file for an empty map
ParseMapLenient(raw) ==
  IF raw.kind = "map"
    THEN [ok |-> TRUE, file |-> raw.file, tokens |-> raw.tokens]
    ELSE [ok |-> TRUE, file |-> "", tokens |-> EmptyMap]

\* JSON.parse(await vault.read(file)) as MapFile; ok = FALSE stands for the
\* exception of either
ParseMap(raw) ==
  IF raw.kind = "map"
    THEN [ok |-> TRUE, file |-> raw.file, tokens |-> raw.tokens]
    ELSE [ok |-> FALSE, file |-> "", tokens |-> EmptyMap]

(***************************************************************************)
(* The detection service (run_phi.py), reached over HTTP.                  *)
(***************************************************************************)
RECURSIVE Firsts(_, _, _)
\* the distinct values of category label in text, in order of first occurrence
Firsts(text, label, seen) ==
  IF text = <<>> THEN seen
  ELSE IF /\ Head(text) \in Values
          /\ Category(Head(text)) = label
          /\ \A i \in 1..Len(seen) : seen[i] # Head(text)
    THEN Firsts(Tail(text), label, Append(seen, Head(text)))
    ELSE Firsts(Tail(text), label, seen)

IndexOf(seq, v) == CHOOSE i \in 1..Len(seq) : seq[i] = v

\* the token the service gives to value v of text
TokenOf(text, v) ==
  TokenFor(Category(v), IndexOf(Firsts(text, Category(v), <<>>), v))

ValuesIn(text) == { text[i] : i \in 1..Len(text) } \cap Values

Occurrences(text, label) ==
  Cardinality({ i \in 1..Len(text) :
                  text[i] \in Values /\ Category(text[i]) = label })

RECURSIVE Counts(_, _)
\* entity_counts: the categories found, with the number of entities of each
Counts(text, labels) ==
  IF labels = <<>> THEN <<>>
  ELSE LET n == Occurrences(text, Head(labels))
       IN  IF n = 0 THEN Counts(text, Tail(labels))
           ELSE << <<Head(labels), n>> >> \o Counts(text, Tail(labels))

\* POST /redact: every sensitive value is replaced by its token
Detect(text) ==
  [ redacted_text |->
      [i \in 1..Len(text) |->
        IF text[i] \in Values THEN TokenOf(text, text[i]) ELSE text[i]],
    map |-> [t \in { TokenOf(text, v) : v \in ValuesIn(text) } |->
              CHOOSE v \in ValuesIn(text) : TokenOf(text, v) = t],
    entity_counts |-> Counts(text, Labels) ]

\* POST /restore
Restore(text, map) ==
  [i \in 1..Len(text) |->
    IF text[i] \in DOMAIN map THEN map[text[i]] ELSE text[i]]

NoResponse == [redacted_text |-> <<>>, map |-> EmptyMap, entity_counts |-> <<>>]

(***************************************************************************)
(* Notices.                                                                *)
(***************************************************************************)
NoticeOffline == "Redactor: server offline - start run_phi.py first"
NoticeNoActiveFile == "No active file."
NoticeCouldNotRead(name) == "Redactor: could not read " \o name
NoticeCouldNotSave == "Redactor: could not save output files."
NoticeNoMap(name) == "No map found for \"" \o name \o "\" - redact it first"
NoticeMapCorrupted == "Redactor: map file is missing or corrupted."
NoticeRestored(name) == "Restored \"" \o name \o "\" successfully"
NoticeCouldNotSaveRestored == "Redactor: could not save restored file."
NoticeNoSelection == "No text selected."
NoticeMapSaveFailed == "Redactor: selection redacted but map save failed."
NoticeNoEntitiesInSelection == "No entities found in selection"
NoticeRedactedInSelection(total) ==
  "Redacted " \o ToString(total) \o " entities in selection"

NoticeNotLocalhost ==
  "Warning: The server URL is not localhost. Your note content will be " \o
  "sent to that address. Make sure you trust and control that server."

\* checkServerStatus: the diagnostic of a /status response
Ready(loaded) == IF loaded THEN "ready" ELSE "not loaded"
NoticeServerOnline(data) ==
  "Redactor server: online / spaCy: " \o Ready(data.spacy) \o
  " / Phi-3: " \o Ready(data.phi3)
NoticeServerOffline ==
  "Redactor server: offline - Start run_phi.py to enable all features."
\* GET /status: the bodies the service may answer with
StatusResponses ==
  { [spacy |-> TRUE, phi3 |-> TRUE], [spacy |-> TRUE, phi3 |-> FALSE] }

LABEL_DISPLAY ==
  [ PERSON |-> "names", COMPANY |-> "companies", PHONE |-> "phones",
    EMAIL |-> "emails", ADDRESS |-> "locations", POSTCODE |-> "postcodes",
    TAX |-> "tax IDs", NI |-> "NI numbers", DATE |-> "dates",
    URL |-> "URLs", CURRENCY |-> "amounts" ]

\* label.toLowerCase(), on the labels of the table and on the labels the
\* service may send that the table does not have
toLowerCase ==
  [ PERSON |-> "person", COMPANY |-> "company", PHONE |-> "phone",
    EMAIL |-> "email", ADDRESS |-> "address", POSTCODE |-> "postcode",
    TAX |-> "tax", NI |-> "ni", DATE |-> "date", URL |-> "url",
    CURRENCY |-> "currency", MISC |-> "misc", ORG |-> "org", IBAN |-> "iban" ]

\* LABEL_DISPLAY[label] ?? label.toLowerCase()
DisplayLabel(label) ==
  IF label \in DOMAIN LABEL_DISPLAY THEN LABEL_DISPLAY[label]
  ELSE toLowerCase[label]

RECURSIVE Total(_)
\* Object.values(counts).reduce((a, b) => a + b, 0)
Total(counts) ==
  IF counts = <<>> THEN 0 ELSE Head(counts)[2] + Total(Tail(counts))

RECURSIVE CountParts(_)
CountParts(counts) ==
  IF counts = <<>> THEN <<>>
  ELSE LET rest == CountParts(Tail(counts))
           n == Head(counts)[2]
       IN  IF n > 0
             THEN << ToString(n) \o " " \o DisplayLabel(Head(counts)[1]) >> \o rest
             ELSE rest

RECURSIVE Join(_)
Join(parts) ==
  IF parts = <<>> THEN ""
  ELSE IF Len(parts) = 1 THEN parts[1]
  ELSE parts[1] \o ", " \o Join(Tail(parts))

\* buildCountSummary without its test for a total of zero
buildCountSummaryNoZero(counts) == "Redacted: " \o Join(CountParts(counts))

buildCountSummary(counts) ==
  IF Total(counts) = 0 THEN "Redacted: no entities found"
  ELSE "Redacted: " \o Join(CountParts(counts))

(***************************************************************************)
(* State.                                                                  *)
(***************************************************************************)
VARIABLES
  serverOnline,  \* RedactorPlugin.serverOnline
  statusBar,     \* text of the status bar item: "checking", "online", "offline"
  ribbon,        \* colour of the ribbon icon: "default", "green", "red"
  lifecycle,     \* "new", "inert" (mobile), "loading", "active", "unloaded"
  settingsWait,  \* onload is suspended on loadSettings
  loadWait,      \* onload is suspended on its first updateServerStatus
  registered,    \* the ribbon icon, the status bar item, the commands, the
                 \* file menu and the settings tab are registered
  timers,        \* number of running setInterval timers
  probes,        \* updateServerStatus calls started by a tick and in flight
  healthSrc,     \* what wrote serverOnline last: "init", "probe_up",
                 \* "probe_down", "request_failed"
  vault,         \* path -> file content
  activeFile,    \* workspace.getActiveFile(), NoFile for null
  editor,        \* the active editor: the text at the cursor and whether it
                 \* is selected
  inv,           \* the invocations of commands and settings handlers: in
                 \* flight, ended or not yet started
  serverUrl      \* settings.serverUrl

health == <<serverOnline, statusBar, ribbon, healthSrc>>
monitor == <<lifecycle, settingsWait, loadWait, registered, timers, probes>>
vars == <<serverOnline, statusBar, ribbon, lifecycle, settingsWait, loadWait,
          registered, timers, probes,
          healthSrc, vault, activeFile, editor, inv, serverUrl>>

Procs == 1..MaxProcs

\* The locals of an invocation (file, text, resp, existing, restored), its
\* notices, and a record of what it did: entryOnline is serverOnline when it
\* was invoked, requests counts its detect and restore requests, attempts
\* lists the paths it called saveVaultFile for, replaced tells whether it
\* called editor.replaceSelection, quiet whether every earlier invocation had
\* ended when it was invoked.
Idle ==
  [ op |-> "none", pc |-> "idle", file |-> NoFile, text |-> <<>>,
    resp |-> NoResponse, existing |-> EmptyMap, restored |-> <<>>,
    notices |-> <<>>, entryOnline |-> FALSE, requests |-> 0,
    attempts |-> <<>>, replaced |-> FALSE, quiet |-> FALSE ]

\* a new invocation of op, before its first statement
Invoke(op, file) ==
  [Idle EXCEPT !.op = op, !.file = file, !.entryOnline = serverOnline,
               !.quiet = \A q \in Procs : inv[q].pc \in {"idle", "done"}]

\* the invocations are numbered in the order in which the user runs them
Slot(p) == inv[p].pc = "idle" /\ \A q \in Procs : q < p => inv[q].pc # "idle"

\* the commands, the ribbon icon, the file menu and the settings tab can be
\* used from the moment onload registers them until an unload removes them
CommandsRegistered == registered

Notify(r, notice) == [r EXCEPT !.notices = Append(@, notice)]
Done(r) == [r EXCEPT !.pc = "done"]

(***************************************************************************)
(* Guards and helpers of the plugin.                                       *)
(***************************************************************************)
\* assertOnline without its test of serverOnline
assertOnlineUnchecked == TRUE

\* assertOnline(): the caller adds the notice when it returns FALSE
assertOnline == serverOnline

\* refreshStatusUI(), for the value of serverOnline it is called with
refreshStatusUI(online) == IF online THEN "online" ELSE "offline"
\* refreshStatusUI(): the colour it gives the ribbon icon
ribbonColor(online) == IF online THEN "green" ELSE "red"

\* vault.getAbstractFileByPath(path) instanceof TFile
getAbstractFileByPath(v, path) == v[path].kind # "absent"

\* the test that finds a map for every note
mapFoundAlways(v, file) == TRUE

\* restoreCurrentNote: is there a map file for the active note
mapFound(v, file) == getAbstractFileByPath(v, MapPath(file))

\* saveVaultFile that leaves an existing file as it is
saveVaultFileCreateOnly(v, path, content) ==
  IF v[path].kind # "absent" THEN v ELSE [v EXCEPT ![path] = content]

\* saveVaultFile(path, content): modify the existing file or create it.
\* ensureFolder changes no file; a failure of it or of the write is the
\* caller's failure action.
saveVaultFile(v, path, content) ==
  IF getAbstractFileByPath(v, path)
    THEN [v EXCEPT ![path] = content]
    ELSE [v EXCEPT ![path] = content]

\* { ...existingTokens, ...response.map }
Merge(existingTokens, map) ==
  [t \in DOMAIN existingTokens \cup DOMAIN map |->
    IF t \in DOMAIN map THEN map[t] ELSE existingTokens[t]]

\* The vault outlives the plugin: it is empty of artifacts, or holds what an
\* earlier redaction of a/n1.md left, with the map intact or damaged.
PriorResponse == Detect(SourceText(<<"a", "n1.md">>))
VaultOf(redacted, map) ==
  [f \in Paths |->
    IF f \in Docs THEN TextContent(SourceText(f))
    ELSE IF f \in RedactedFiles THEN redacted
    ELSE IF f \in MapFiles THEN map
    ELSE Absent]
InitialVaults ==
  { VaultOf(Absent, Absent),
    VaultOf(TextContent(PriorResponse.redacted_text),
            MapContent("n1.md", PriorResponse.map)),
    VaultOf(TextContent(PriorResponse.redacted_text), Corrupt) }

Init ==
  /\ serverOnline = FALSE
  /\ statusBar = "none"
  /\ ribbon = "none"
  /\ lifecycle = "new"
  /\ settingsWait = FALSE
  /\ loadWait = FALSE
  /\ registered = FALSE
  /\ timers = 0
  /\ probes = 0
  /\ healthSrc = "init"
  /\ vault \in InitialVaults
  /\ activeFile = NoFile
  /\ editor = [text |-> <<>>, selected |-> FALSE]
  /\ inv = [p \in Procs |-> Idle]
  /\ serverUrl = DefaultUrl

(***************************************************************************)
(* Plugin lifecycle and the health monitor.                                *)
(***************************************************************************)
\* what loadData() may give: nothing, or the settings saved earlier
PersistedData ==
  { [k \in {} |-> <<>>],
    [serverUrl |-> << "http://", "192.168.1.20", ":8765" >>] }

\* loadSettings(): Object.assign({}, DEFAULT_SETTINGS, data), the server URL
loadSettings(data) ==
  IF "serverUrl" \in DOMAIN data THEN data.serverUrl ELSE DefaultUrl

\* onload() up to its first await: the mobile guard, then loadSettings()
Onload ==
  /\ lifecycle = "new"
  /\ \E isMobile \in BOOLEAN :
       IF isMobile
         THEN /\ lifecycle' = "inert"
              /\ settingsWait' = FALSE
         ELSE /\ lifecycle' = "loading"
              /\ settingsWait' = TRUE
  /\ UNCHANGED <<health, loadWait, registered, timers, probes, vault,
                 activeFile, editor, inv, serverUrl>>

\* loadData() has resolved: the settings are assigned, the ribbon icon, the
\* status bar item, the commands, the file menu and the settings tab are
\* registered, and the first updateServerStatus is awaited
OnloadSettingsLoaded ==
  /\ settingsWait
  /\ settingsWait' = FALSE
  /\ \E data \in PersistedData : serverUrl' = loadSettings(data)
  /\ statusBar' = "checking"
  /\ ribbon' = "default"
  /\ registered' = TRUE
  /\ loadWait' = TRUE
  /\ UNCHANGED <<serverOnline, healthSrc, lifecycle, timers, probes, vault,
                 activeFile, editor, inv>>

\* updateServerStatus whose catch block leaves serverOnline as it is
updateServerStatusSticky(ok) ==
  /\ serverOnline' = IF ok THEN TRUE ELSE serverOnline
  /\ statusBar' = refreshStatusUI(serverOnline')
  /\ ribbon' = ribbonColor(serverOnline')
  /\ healthSrc' = IF ok THEN "probe_up" ELSE "probe_down"

\* updateServerStatus() after its request: ok is the outcome of GET /status
updateServerStatus(ok) ==
  /\ serverOnline' = ok
  /\ statusBar' = refreshStatusUI(ok)
  /\ ribbon' = ribbonColor(ok)
  /\ healthSrc' = IF ok THEN "probe_up" ELSE "probe_down"

\* the first probe ends and onload registers the polling interval
OnloadProbeDone ==
  /\ loadWait
  /\ \E ok \in BOOLEAN : updateServerStatus(ok)
  /\ loadWait' = FALSE
  /\ timers' = timers + 1
  /\ lifecycle' = IF lifecycle = "loading" THEN "active" ELSE lifecycle
  /\ UNCHANGED <<settingsWait, registered, probes, vault, activeFile, editor,
                 inv, serverUrl>>

\* a tick of the 30 s interval starts updateServerStatus
PollTick ==
  /\ timers > 0
  /\ probes < MaxProbes
  /\ probes' = probes + 1
  /\ UNCHANGED <<health, lifecycle, settingsWait, loadWait, registered, timers,
                 vault, activeFile, editor, inv, serverUrl>>

PollDone ==
  /\ probes > 0
  /\ \E ok \in BOOLEAN : updateServerStatus(ok)
  /\ probes' = probes - 1
  /\ UNCHANGED <<lifecycle, settingsWait, loadWait, registered, timers, vault,
                 activeFile, editor, inv, serverUrl>>

\* the plugin is disabled: Plugin.unload() clears what onload has registered
\* so far
Unload ==
  /\ lifecycle \in {"loading", "active"}
  /\ lifecycle' = "unloaded"
  /\ timers' = 0
  /\ registered' = FALSE
  /\ UNCHANGED <<health, settingsWait, loadWait, probes, vault, activeFile,
                 editor, inv, serverUrl>>

\* editor.getSelection()
getSelection == IF editor.selected THEN editor.text ELSE <<>>
\* editor.replaceSelection(text): the text is inserted, the cursor follows it
replaceSelection(text) == [text |-> text, selected |-> FALSE]

\* a catch block that reports the failure and sends the request again
RequestFailedRetry(p) ==
  /\ inv' = [inv EXCEPT ![p] =
       [Notify(@, NoticeOffline) EXCEPT !.requests = @ + 1]]
  /\ serverOnline' = FALSE
  /\ statusBar' = refreshStatusUI(FALSE)
  /\ ribbon' = ribbonColor(FALSE)
  /\ healthSrc' = "request_failed"

\* a catch block that reports the failure and leaves the health state alone
RequestFailedKeepState(p) ==
  /\ inv' = [inv EXCEPT ![p] = Done(Notify(@, NoticeOffline))]
  /\ UNCHANGED <<serverOnline, statusBar, ribbon, healthSrc>>

\* a catch block that records the failure and leaves the indicator as it is
RequestFailedNoRefresh(p) ==
  /\ inv' = [inv EXCEPT ![p] = Done(Notify(@, NoticeOffline))]
  /\ serverOnline' = FALSE
  /\ healthSrc' = "request_failed"
  /\ UNCHANGED <<statusBar, ribbon>>

\* a failed detect or restore request: the catch block of the orchestrators
RequestFailed(p) ==
  /\ inv' = [inv EXCEPT ![p] = Done(Notify(@, NoticeOffline))]
  /\ serverOnline' = FALSE
  /\ statusBar' = refreshStatusUI(FALSE)
  /\ ribbon' = ribbonColor(FALSE)
  /\ healthSrc' = "request_failed"

(***************************************************************************)
(* The user's workspace when a command is run.                             *)
(***************************************************************************)
\* The note open in the editor when a command is run (NoFile: none).  The
\* redact command is run on a source note; the restore command is run on a
\* source note or on a redacted artifact; redactSelectedText uses nothing of
\* ctx.file but its name.
CurrentNotes == {NoFile} \cup Docs
RestoreNotes ==
  {NoFile} \cup { f \in {<<"a", "n1.md">>} \cup RedactedFiles :
                    vault[f].kind = "text" }
SelectNotes == {NoFile, <<"a", "n1.md">>}
NoEditor == [text |-> <<>>, selected |-> FALSE]

(***************************************************************************)
(* redactCurrentNote() and redactFile(file)                                *)
(***************************************************************************)
\* the command "Redact current note" or the ribbon icon, run with `active`
\* open: without an active file redactCurrentNote returns; with one it
\* calls redactFile, which runs up to the await of vault.read(file)
RedactCurrentNote(p, active) ==
  /\ CommandsRegistered
  /\ Slot(p)
  /\ activeFile' = active
  /\ editor' = IF active = activeFile THEN editor ELSE NoEditor
  /\ inv' = [inv EXCEPT ![p] =
       IF active = NoFile
         THEN Done(Notify(Invoke("redactCurrentNote", NoFile),
                          NoticeNoActiveFile))
       ELSE IF ~assertOnline
         THEN Done(Notify(Invoke("redactFile", active), NoticeOffline))
         ELSE [Invoke("redactFile", active) EXCEPT !.pc = "read"]]
  /\ UNCHANGED <<health, monitor, vault, serverUrl>>

\* "Redact this note" in the file menu of `file`: assertOnline, then
\* vault.read(file) is awaited
RedactFile(p, file) ==
  /\ CommandsRegistered
  /\ Slot(p)
  /\ inv' = [inv EXCEPT ![p] =
       IF ~assertOnline
         THEN Done(Notify(Invoke("redactFile", file), NoticeOffline))
         ELSE [Invoke("redactFile", file) EXCEPT !.pc = "read"]]
  /\ UNCHANGED <<health, monitor, vault, activeFile, editor, serverUrl>>

\* redactFile that creates the output file before it sends the request
RedactFileReadEager(p) ==
  /\ inv[p].op = "redactFile" /\ inv[p].pc = "read"
  /\ \E ok \in BOOLEAN :
       /\ inv' = [inv EXCEPT ![p] =
            IF ok /\ vault[inv[p].file].kind = "text"
              THEN [@ EXCEPT !.text = vault[inv[p].file].text,
                             !.pc = "request", !.requests = @ + 1]
              ELSE Done(Notify(@, NoticeCouldNotRead(FileName(inv[p].file))))]
       /\ vault' = IF ok THEN [vault EXCEPT ![RedactedPath(inv[p].file)] =
                                 TextContent(<<>>)]
                   ELSE vault
  /\ UNCHANGED <<health, monitor, activeFile, editor, serverUrl>>

\* vault.read(file) has ended; on success POST /redact is sent
RedactFileRead(p) ==
  /\ inv[p].op = "redactFile" /\ inv[p].pc = "read"
  /\ \E ok \in BOOLEAN :
       inv' = [inv EXCEPT ![p] =
         IF ok /\ vault[inv[p].file].kind = "text"
           THEN [@ EXCEPT !.text = vault[inv[p].file].text, !.pc = "request",
                          !.requests = @ + 1]
           ELSE Done(Notify(@, NoticeCouldNotRead(FileName(inv[p].file))))]
  /\ UNCHANGED <<health, monitor, vault, activeFile, editor, serverUrl>>

\* the response has arrived; saveVaultFile(redactedPath, ...) is awaited
RedactFileResponse(p) ==
  /\ inv[p].op = "redactFile" /\ inv[p].pc = "request"
  /\ inv' = [inv EXCEPT ![p] =
       [@ EXCEPT !.resp = Detect(inv[p].text), !.pc = "saveRedacted",
                 !.attempts = Append(@, RedactedPath(inv[p].file))]]
  /\ UNCHANGED <<health, monitor, vault, activeFile, editor, serverUrl>>

RedactFileRequestFailed(p) ==
  /\ inv[p].op = "redactFile" /\ inv[p].pc = "request"
  /\ RequestFailed(p)
  /\ UNCHANGED <<monitor, vault, activeFile, editor, serverUrl>>

\* the redacted artifact is written; saveVaultFile(mapPath, ...) is awaited
RedactFileSaveRedacted(p) ==
  /\ inv[p].op = "redactFile" /\ inv[p].pc = "saveRedacted"
  /\ vault' = saveVaultFile(vault, RedactedPath(inv[p].file),
                            TextContent(inv[p].resp.redacted_text))
  /\ inv' = [inv EXCEPT ![p] =
       [@ EXCEPT !.pc = "saveMap", !.attempts = Append(@, MapPath(inv[p].file))]]
  /\ UNCHANGED <<health, monitor, activeFile, editor, serverUrl>>

\* the map is written, the summary shown; openFile(redactedFile) is awaited
RedactFileSaveMap(p) ==
  /\ inv[p].op = "redactFile" /\ inv[p].pc = "saveMap"
  /\ vault' = saveVaultFile(vault, MapPath(inv[p].file),
                  MapContent(FileName(inv[p].file), inv[p].resp.map))
  /\ inv' = [inv EXCEPT ![p] =
       [Notify(@, buildCountSummary(inv[p].resp.entity_counts))
          EXCEPT !.pc = "open"]]
  /\ UNCHANGED <<health, monitor, activeFile, editor, serverUrl>>

\* a catch block that removes the artifact again when a write fails
RedactFileSaveFailedRollback(p) ==
  /\ inv[p].op = "redactFile" /\ inv[p].pc \in {"saveRedacted", "saveMap"}
  /\ inv' = [inv EXCEPT ![p] = Done(Notify(@, NoticeCouldNotSave))]
  /\ vault' = [vault EXCEPT ![RedactedPath(inv[p].file)] = Absent]
  /\ UNCHANGED <<health, monitor, activeFile, editor, serverUrl>>

\* either saveVaultFile throws: the catch block
RedactFileSaveFailed(p) ==
  /\ inv[p].op = "redactFile" /\ inv[p].pc \in {"saveRedacted", "saveMap"}
  /\ inv' = [inv EXCEPT ![p] = Done(Notify(@, NoticeCouldNotSave))]
  /\ UNCHANGED <<health, monitor, vault, activeFile, editor, serverUrl>>

\* the redacted artifact is shown in a new tab
RedactFileOpen(p) ==
  /\ inv[p].op = "redactFile" /\ inv[p].pc = "open"
  /\ activeFile' = RedactedPath(inv[p].file)
  /\ editor' = [text |-> <<>>, selected |-> FALSE]
  /\ inv' = [inv EXCEPT ![p] = Done(@)]
  /\ UNCHANGED <<health, monitor, vault, serverUrl>>

\* openFile throws: the same catch block
RedactFileOpenFailed(p) ==
  /\ inv[p].op = "redactFile" /\ inv[p].pc = "open"
  /\ inv' = [inv EXCEPT ![p] = Done(Notify(@, NoticeCouldNotSave))]
  /\ UNCHANGED <<health, monitor, vault, activeFile, editor, serverUrl>>

(***************************************************************************)
(* restoreCurrentNote()                                                    *)
(***************************************************************************)
\* the command is run with `active` open (NoFile: no note is open): up to
\* the await of vault.read(mapAbstract)
RestoreCurrentNote(p, active) ==
  /\ CommandsRegistered
  /\ Slot(p)
  /\ activeFile' = active
  /\ editor' = IF active = activeFile THEN editor ELSE NoEditor
  /\ inv' = [inv EXCEPT ![p] =
       IF ~assertOnline
         THEN Done(Notify(Invoke("restore", NoFile), NoticeOffline))
       ELSE IF active = NoFile
         THEN Done(Notify(Invoke("restore", NoFile), NoticeNoActiveFile))
       ELSE IF ~mapFound(vault, active)
         THEN Done(Notify(Invoke("restore", active),
                          NoticeNoMap(FileName(active))))
       ELSE [Invoke("restore", active) EXCEPT !.pc = "readMap"]]
  /\ UNCHANGED <<health, monitor, vault, serverUrl>>

\* vault.read(mapAbstract) has ended (ok: it has resolved) and the map is
\* parsed; one catch covers both; then vault.read(file) is awaited
RestoreReadMap(p) ==
  /\ inv[p].op = "restore" /\ inv[p].pc = "readMap"
  /\ \E ok \in BOOLEAN :
       LET mapData == ParseMap(vault[MapPath(inv[p].file)])
       IN  inv' = [inv EXCEPT ![p] =
             IF ok /\ mapData.ok
               THEN [@ EXCEPT !.existing = mapData.tokens, !.pc = "readText"]
               ELSE Done(Notify(@, NoticeMapCorrupted))]
  /\ UNCHANGED <<health, monitor, vault, activeFile, editor, serverUrl>>

\* the note is read; on success POST /restore is sent
RestoreReadText(p) ==
  /\ inv[p].op = "restore" /\ inv[p].pc = "readText"
  /\ \E ok \in BOOLEAN :
       inv' = [inv EXCEPT ![p] =
         IF ok /\ vault[inv[p].file].kind = "text"
           THEN [@ EXCEPT !.text = vault[inv[p].file].text, !.pc = "request",
                          !.requests = @ + 1]
           ELSE Done(Notify(@, NoticeCouldNotRead(FileName(inv[p].file))))]
  /\ UNCHANGED <<health, monitor, vault, activeFile, editor, serverUrl>>

\* the response has arrived; saveVaultFile(restoredPath, ...) is awaited
RestoreResponse(p) ==
  /\ inv[p].op = "restore" /\ inv[p].pc = "request"
  /\ inv' = [inv EXCEPT ![p] =
       [@ EXCEPT !.restored = Restore(inv[p].text, inv[p].existing),
                 !.pc = "saveRestored",
                 !.attempts = Append(@, RestoredPath(inv[p].file))]]
  /\ UNCHANGED <<health, monitor, vault, activeFile, editor, serverUrl>>

RestoreRequestFailed(p) ==
  /\ inv[p].op = "restore" /\ inv[p].pc = "request"
  /\ RequestFailed(p)
  /\ UNCHANGED <<monitor, vault, activeFile, editor, serverUrl>>

\* a restore that removes the map once it has used it
RestoreSaveConsumeMap(p) ==
  /\ inv[p].op = "restore" /\ inv[p].pc = "saveRestored"
  /\ vault' = [saveVaultFile(vault, RestoredPath(inv[p].file),
                             TextContent(inv[p].restored))
                 EXCEPT ![MapPath(inv[p].file)] = Absent]
  /\ inv' = [inv EXCEPT ![p] =
       [Notify(@, NoticeRestored(FileName(inv[p].file))) EXCEPT !.pc = "open"]]
  /\ UNCHANGED <<health, monitor, activeFile, editor, serverUrl>>

\* the restored artifact is written, the notice shown; openFile is awaited
RestoreSave(p) ==
  /\ inv[p].op = "restore" /\ inv[p].pc = "saveRestored"
  /\ vault' = saveVaultFile(vault, RestoredPath(inv[p].file),
                            TextContent(inv[p].restored))
  /\ inv' = [inv EXCEPT ![p] =
       [Notify(@, NoticeRestored(FileName(inv[p].file))) EXCEPT !.pc = "open"]]
  /\ UNCHANGED <<health, monitor, activeFile, editor, serverUrl>>

RestoreSaveFailed(p) ==
  /\ inv[p].op = "restore" /\ inv[p].pc = "saveRestored"
  /\ inv' = [inv EXCEPT ![p] = Done(Notify(@, NoticeCouldNotSaveRestored))]
  /\ UNCHANGED <<health, monitor, vault, activeFile, editor, serverUrl>>

RestoreOpen(p) ==
  /\ inv[p].op = "restore" /\ inv[p].pc = "open"
  /\ activeFile' = RestoredPath(inv[p].file)
  /\ editor' = NoEditor
  /\ inv' = [inv EXCEPT ![p] = Done(@)]
  /\ UNCHANGED <<health, monitor, vault, serverUrl>>

RestoreOpenFailed(p) ==
  /\ inv[p].op = "restore" /\ inv[p].pc = "open"
  /\ inv' = [inv EXCEPT ![p] = Done(Notify(@, NoticeCouldNotSaveRestored))]
  /\ UNCHANGED <<health, monitor, vault, activeFile, editor, serverUrl>>

(***************************************************************************)
(* redactSelectedText(editor, ctx)                                         *)
(***************************************************************************)
\* the editor command is run with `active` open and `selection` selected:
\* up to the await of POST /redact
RedactSelectedText(p, active, selection) ==
  /\ CommandsRegistered
  /\ Slot(p)
  /\ activeFile' = active
  /\ editor' = [text |-> selection, selected |-> selection # <<>>]
  /\ inv' = [inv EXCEPT ![p] =
       IF ~assertOnline
         THEN Done(Notify(Invoke("redactSelectedText", NoFile), NoticeOffline))
       ELSE IF selection = <<>>
         THEN Done(Notify(Invoke("redactSelectedText", NoFile),
                          NoticeNoSelection))
       ELSE IF active = NoFile
         THEN Done(Notify(Invoke("redactSelectedText", NoFile),
                          NoticeNoActiveFile))
       ELSE [Invoke("redactSelectedText", active) EXCEPT
               !.text = selection, !.pc = "request", !.requests = @ + 1]]
  /\ UNCHANGED <<health, monitor, vault, serverUrl>>

\* the response has arrived: the selection is replaced, then the existing
\* map is read (if there is one) or saveVaultFile(mapPath, ...) is awaited
SelectResponse(p) ==
  /\ inv[p].op = "redactSelectedText" /\ inv[p].pc = "request"
  /\ editor' = replaceSelection(Detect(inv[p].text).redacted_text)
  /\ inv' = [inv EXCEPT ![p] =
       IF getAbstractFileByPath(vault, MapPath(inv[p].file))
         THEN [@ EXCEPT !.resp = Detect(inv[p].text), !.replaced = TRUE,
                        !.pc = "readMap"]
         ELSE [@ EXCEPT !.resp = Detect(inv[p].text), !.replaced = TRUE,
                        !.pc = "saveMap",
                        !.attempts = Append(@, MapPath(inv[p].file))]]
  /\ UNCHANGED <<health, monitor, vault, activeFile, serverUrl>>

\* a catch block that also replaces the selection, by the empty text
SelectRequestFailedReplaces(p) ==
  /\ inv[p].op = "redactSelectedText" /\ inv[p].pc = "request"
  /\ RequestFailed(p)
  /\ editor' = replaceSelection(<<>>)
  /\ UNCHANGED <<monitor, vault, activeFile, serverUrl>>

\* the request throws: the catch block
SelectRequestFailed(p) ==
  /\ inv[p].op = "redactSelectedText" /\ inv[p].pc = "request"
  /\ RequestFailed(p)
  /\ UNCHANGED <<monitor, vault, activeFile, editor, serverUrl>>

\* an inline redaction that discards a corrupt map by deleting the file
SelectReadMapDeleteCorrupt(p) ==
  /\ inv[p].op = "redactSelectedText" /\ inv[p].pc = "readMap"
  /\ \E ok \in BOOLEAN :
       LET mapData == ParseMap(vault[MapPath(inv[p].file)])
       IN  /\ inv' = [inv EXCEPT ![p] =
                [@ EXCEPT !.existing = IF ok /\ mapData.ok THEN mapData.tokens
                                       ELSE EmptyMap,
                          !.pc = "saveMap",
                          !.attempts = Append(@, MapPath(inv[p].file))]]
           /\ vault' = IF mapData.ok THEN vault
                       ELSE [vault EXCEPT ![MapPath(inv[p].file)] = Absent]
  /\ UNCHANGED <<health, monitor, activeFile, editor, serverUrl>>

\* vault.read(existing) has ended (ok: it has resolved) and the map is
\* parsed; the silent catch covers both (a read that rejects or a corrupt
\* map: start fresh); then saveVaultFile(mapPath, ...) is awaited
SelectReadMap(p) ==
  /\ inv[p].op = "redactSelectedText" /\ inv[p].pc = "readMap"
  /\ \E ok \in BOOLEAN :
       LET mapData == ParseMap(vault[MapPath(inv[p].file)])
       IN  inv' = [inv EXCEPT ![p] =
             [@ EXCEPT !.existing = IF ok /\ mapData.ok THEN mapData.tokens
                                    ELSE EmptyMap,
                       !.pc = "saveMap",
                       !.attempts = Append(@, MapPath(inv[p].file))]]
  /\ UNCHANGED <<health, monitor, vault, activeFile, editor, serverUrl>>

\* the merged map is written and the count reported
SelectSaveMap(p) ==
  /\ inv[p].op = "redactSelectedText" /\ inv[p].pc = "saveMap"
  /\ vault' = saveVaultFile(vault, MapPath(inv[p].file),
                  MapContent(FileName(inv[p].file),
                             Merge(inv[p].existing, inv[p].resp.map)))
  /\ LET total == Total(inv[p].resp.entity_counts)
     IN  inv' = [inv EXCEPT ![p] =
           Done(Notify(@, IF total = 0 THEN NoticeNoEntitiesInSelection
                          ELSE NoticeRedactedInSelection(total)))]
  /\ UNCHANGED <<health, monitor, activeFile, editor, serverUrl>>

SelectSaveFailed(p) ==
  /\ inv[p].op = "redactSelectedText" /\ inv[p].pc = "saveMap"
  /\ inv' = [inv EXCEPT ![p] = Done(Notify(@, NoticeMapSaveFailed))]
  /\ UNCHANGED <<health, monitor, vault, activeFile, editor, serverUrl>>

(***************************************************************************)
(* checkServerStatus() and the "Test Connection" button of the settings    *)
(* tab.                                                                    *)
(***************************************************************************)
\* checkServerStatus() after its request: the diagnostic is shown, and
\* serverOnline is not assigned
checkServerStatus(r, ok, data) ==
  Notify(r, IF ok THEN NoticeServerOnline(data) ELSE NoticeServerOffline)

\* the command "Check Redactor server status": GET /status is awaited
CheckServerStatus(p) ==
  /\ CommandsRegistered
  /\ Slot(p)
  /\ inv' = [inv EXCEPT ![p] =
       [Invoke("checkServerStatus", NoFile) EXCEPT !.pc = "status"]]
  /\ UNCHANGED <<health, monitor, vault, activeFile, editor, serverUrl>>

CheckServerStatusDone(p) ==
  /\ inv[p].op = "checkServerStatus" /\ inv[p].pc = "status"
  /\ \E ok \in BOOLEAN, data \in StatusResponses :
       inv' = [inv EXCEPT ![p] = Done(checkServerStatus(@, ok, data))]
  /\ UNCHANGED <<health, monitor, vault, activeFile, editor, serverUrl>>

\* "Test Connection" is clicked: checkServerStatus() is awaited. A button
\* is disabled while its own test runs; each display() of the settings tab
\* makes a new, enabled button
TestConnection(p) ==
  /\ CommandsRegistered
  /\ Slot(p)
  /\ inv' = [inv EXCEPT ![p] =
       [Invoke("testConnection", NoFile) EXCEPT !.pc = "status"]]
  /\ UNCHANGED <<health, monitor, vault, activeFile, editor, serverUrl>>

\* checkServerStatus() has ended; updateServerStatus() is awaited
TestConnectionChecked(p) ==
  /\ inv[p].op = "testConnection" /\ inv[p].pc = "status"
  /\ \E ok \in BOOLEAN, data \in StatusResponses :
       inv' = [inv EXCEPT ![p] =
         [checkServerStatus(@, ok, data) EXCEPT !.pc = "probe"]]
  /\ UNCHANGED <<health, monitor, vault, activeFile, editor, serverUrl>>

\* updateServerStatus() has ended; the button is enabled again
TestConnectionDone(p) ==
  /\ inv[p].op = "testConnection" /\ inv[p].pc = "probe"
  /\ \E ok \in BOOLEAN : updateServerStatus(ok)
  /\ inv' = [inv EXCEPT ![p] = Done(@)]
  /\ UNCHANGED <<monitor, vault, activeFile, editor, serverUrl>>

(***************************************************************************)
(* The settings tab: the "Server URL" field.                               *)
(***************************************************************************)
\* onChange(value): the warning is shown for a URL that isLocalUrl rejects,
\* and the trimmed value is assigned and saved in either case
SetServerUrl(p, value) ==
  /\ CommandsRegistered
  /\ Slot(p)
  /\ LET trimmed == Trim(value)
     IN  /\ inv' = [inv EXCEPT ![p] =
              IF ~isLocalUrl(trimmed)
                THEN Done(Notify(Invoke("setServerUrl", NoFile),
                                 NoticeNotLocalhost))
                ELSE Done(Invoke("setServerUrl", NoFile))]
         /\ serverUrl' = trimmed
  /\ UNCHANGED <<health, monitor, vault, activeFile, editor>>

(***************************************************************************)
(* The specification.                                                      *)
(***************************************************************************)
Next ==
  \/ Onload
  \/ OnloadSettingsLoaded
  \/ OnloadProbeDone
  \/ PollTick
  \/ PollDone
  \/ Unload
  \/ \E p \in Procs :
       \/ \E active \in CurrentNotes : RedactCurrentNote(p, active)
       \/ \E file \in Docs : RedactFile(p, file)
       \/ RedactFileRead(p)
       \/ RedactFileResponse(p)
       \/ RedactFileRequestFailed(p)
       \/ RedactFileSaveRedacted(p)
       \/ RedactFileSaveMap(p)
       \/ RedactFileSaveFailed(p)
       \/ RedactFileOpen(p)
       \/ RedactFileOpenFailed(p)
       \/ \E active \in RestoreNotes : RestoreCurrentNote(p, active)
       \/ RestoreReadMap(p)
       \/ RestoreReadText(p)
       \/ RestoreResponse(p)
       \/ RestoreRequestFailed(p)
       \/ RestoreSave(p)
       \/ RestoreSaveFailed(p)
       \/ RestoreOpen(p)
       \/ RestoreOpenFailed(p)
       \/ \E active \in SelectNotes, selection \in Fragments :
            RedactSelectedText(p, active, selection)
       \/ SelectResponse(p)
       \/ SelectRequestFailed(p)
       \/ SelectReadMap(p)
       \/ SelectSaveMap(p)
       \/ SelectSaveFailed(p)
       \/ CheckServerStatus(p)
       \/ CheckServerStatusDone(p)
       \/ TestConnection(p)
       \/ TestConnectionChecked(p)
       \/ TestConnectionDone(p)
       \/ \E value \in Urls : SetServerUrl(p, value)

Spec == Init /\ [][Next]_vars

\* what an orchestrator invocation does when the read, the request or the
\* write it awaits has completed or failed
Resume(p) ==
  \/ RedactFileRead(p)
  \/ RedactFileResponse(p)
  \/ RedactFileRequestFailed(p)
  \/ RedactFileSaveRedacted(p)
  \/ RedactFileSaveMap(p)
  \/ RedactFileSaveFailed(p)
  \/ RedactFileOpen(p)
  \/ RedactFileOpenFailed(p)
  \/ RestoreReadMap(p)
  \/ RestoreReadText(p)
  \/ RestoreResponse(p)
  \/ RestoreRequestFailed(p)
  \/ RestoreSave(p)
  \/ RestoreSaveFailed(p)
  \/ RestoreOpen(p)
  \/ RestoreOpenFailed(p)
  \/ SelectResponse(p)
  \/ SelectRequestFailed(p)
  \/ SelectReadMap(p)
  \/ SelectSaveMap(p)
  \/ SelectSaveFailed(p)

\* every awaited step eventually completes or fails
LiveSpec == Spec /\ \A p \in Procs : WF_vars(Resume(p))

(***************************************************************************)
(* Properties.                                                             *)
(***************************************************************************)
\* p has called saveVaultFile for the merged map and it has succeeded
SelectSucceeded(p) ==
  /\ inv[p].op = "redactSelectedText"
  /\ inv[p].pc = "done"
  /\ inv[p].attempts # <<>>
  /\ inv[p].notices # <<NoticeMapSaveFailed>>

\* the tokens of a map file as a reader gets them: none from an absent or
\* unparsable file
TokensOf(content) == ParseMap(content).tokens

\* the three orchestrators
Orchestrators == {"redactFile", "restore", "redactSelectedText"}

\* p is the only invocation in flight, and has been since it was invoked
Alone(p) ==
  /\ inv[p].quiet
  /\ \A q \in Procs : q > p => inv[q].pc = "idle"

\* C1: an operation invoked while the cached health state is OFFLINE has
\* ended at once: it has sent no request, has called saveVaultFile for no
\* artifact and no map, has not replaced the selection, and its only notice
\* is the "offline" notice.
OfflineFailFast ==
  \A p \in Procs :
    (inv[p].op \in Orchestrators /\ ~inv[p].entryOnline) =>
      /\ inv[p].pc = "done"
      /\ inv[p].requests = 0
      /\ inv[p].attempts = <<>>
      /\ ~inv[p].replaced
      /\ inv[p].notices = <<NoticeOffline>>

\* redactSelectedText has been refused, after a probe found the server down,
\* with text selected in the editor
OfflineFailFastWitness ==
  \E p \in Procs :
    /\ inv[p].op = "redactSelectedText"
    /\ inv[p].pc = "done"
    /\ ~inv[p].entryOnline
    /\ healthSrc = "probe_down"
    /\ editor.selected

\* C2: when a redactSelectedText that runs with no other invocation in
\* flight writes the map, with M the parseable map of the note as it is in
\* the vault (empty when there is none) and F the fragment map of the
\* response, the keys of the persisted map are keys(M) \cup keys(F), a key
\* of M that is not in F keeps its value, a key of both with equal values is
\* unchanged, and there are no fewer keys than in M.
MergeMonotonicity ==
  [][\A p \in Procs :
       (/\ inv[p].op = "redactSelectedText"
        /\ inv[p].pc = "saveMap"
        /\ inv'[p].pc = "done"
        /\ inv'[p].notices # <<NoticeMapSaveFailed>>
        /\ Alone(p)
        /\ vault[MapPath(inv[p].file)].kind # "corrupt")
       => LET M == TokensOf(vault[MapPath(inv[p].file)])
              F == inv[p].resp.map
              saved == vault'[MapPath(inv[p].file)]
          IN  /\ saved.kind = "map"
              /\ DOMAIN saved.tokens = DOMAIN M \cup DOMAIN F
              /\ \A t \in DOMAIN M \ DOMAIN F : saved.tokens[t] = M[t]
              /\ \A t \in DOMAIN M \cap DOMAIN F :
                   M[t] = F[t] => saved.tokens[t] = M[t]
              /\ Cardinality(DOMAIN saved.tokens) >= Cardinality(DOMAIN M)
     ]_vars

\* the merge of p gave a token of the loaded map another value
Conflict(p) ==
  \E t \in DOMAIN inv[p].existing \cap DOMAIN inv[p].resp.map :
    inv[p].existing[t] # inv[p].resp.map[t]

\* the notices of a redactSelectedText that say nothing but the count
CountNotices ==
  {NoticeNoEntitiesInSelection} \cup
  { NoticeRedactedInSelection(n) : n \in 1..3 }

\* C3: when an inline redaction has overwritten the stored value of a token
\* with a different one, one of its notices tells the user of the conflict.
ConflictSurfaced ==
  \A p \in Procs :
    (SelectSucceeded(p) /\ Conflict(p)) =>
      \E i \in 1..Len(inv[p].notices) : inv[p].notices[i] \notin CountNotices
\* C4: when two inline redactions of one note have both written the map
\* (and nothing else has written it), the persisted map has every token of
\* both fragments.
NoLostUpdate ==
  \A p, q \in Procs :
    (/\ p # q
     /\ SelectSucceeded(p) /\ SelectSucceeded(q)
     /\ MapPath(inv[p].file) = MapPath(inv[q].file)
     /\ \A r \in Procs \ {p, q} : inv[r].attempts = <<>>)
    => (DOMAIN inv[p].resp.map \cup DOMAIN inv[q].resp.map)
         \subseteq DOMAIN TokensOf(vault[MapPath(inv[p].file)])

\* a whole-document redaction of d is between its invocation and its end
RedactInProgress(d) ==
  \E p \in Procs :
    /\ inv[p].op = "redactFile"
    /\ inv[p].pc # "done"
    /\ RedactedPath(inv[p].file) = RedactedPath(d)

\* the tokens of the persisted redacted artifact of d (none when absent)
ArtifactTokens(d) ==
  IF vault[RedactedPath(d)].kind = "text"
    THEN TokensIn(vault[RedactedPath(d)].text)
    ELSE {}

\* C5: while no whole-document redaction of a note is in progress (and its
\* map is readable and no inline redaction has been run), the keys of its
\* persisted map are the tokens of its persisted redacted artifact.
MapMatchesArtifact ==
  \A d \in Docs :
    (/\ ~RedactInProgress(d)
     /\ vault[MapPath(d)].kind # "corrupt"
     /\ \A p \in Procs : inv[p].op # "redactSelectedText")
    => DOMAIN TokensOf(vault[MapPath(d)]) = ArtifactTokens(d)

\* p is a redactFile of d that has written the artifact and the map
RedactSucceeded(p, d) ==
  /\ inv[p].op = "redactFile"
  /\ inv[p].file = d
  /\ inv[p].pc = "done"
  /\ Len(inv[p].attempts) = 2
  /\ inv[p].notices # <<>>
  /\ inv[p].notices[1] = buildCountSummary(Detect(SourceText(d)).entity_counts)

\* q restores the redacted artifact of d right after the redactFile of d,
\* and the two have run one after the other with nothing else in flight
RoundTripOf(q, d) ==
  /\ q > 1
  /\ TokensIn(SourceText(d)) = {}
  /\ RedactSucceeded(q - 1, d)
  /\ inv[q - 1].quiet
  /\ inv[q].op = "restore"
  /\ inv[q].file = RedactedPath(d)
  /\ Alone(q)

\* C6: when a restoreCurrentNote on the redacted artifact, run right after a
\* successful redactFile of a note without token-shaped text, writes the
\* restored artifact, its content is the text of the note.
RoundTrip ==
  [][\A q \in Procs, d \in Docs :
       (/\ RoundTripOf(q, d)
        /\ inv[q].pc = "saveRestored"
        /\ inv'[q].pc = "open")
       => vault'[RestoredPath(d)] = TextContent(SourceText(d))
     ]_vars

\* a/n1.md, with two names in it, has gone through redactFile and
\* restoreCurrentNote, starting from a vault without artifacts
RoundTripWitness ==
  \E q \in Procs :
    /\ RoundTripOf(q, <<"a", "n1.md">>)
    /\ inv[q].pc = "done"
    /\ inv[q].notices = <<NoticeRestored("n1.md")>>
    /\ inv[q].text = Detect(SourceText(<<"a", "n1.md">>)).redacted_text
    /\ vault[RestoredPath(<<"a", "n1.md">>)] =
         TextContent(<<"John", "met", "Jane">>)

\* C7: restoreCurrentNote, run online on a note for which no map file
\* exists, ends at once with the "no map found" notice: it has sent no
\* request, has called saveVaultFile for nothing, and has changed no file
\* (no restored artifact, no map).
MapAbsentRestore ==
  [][\A p \in Procs :
       (/\ inv[p].pc = "idle"
        /\ inv'[p].op = "restore"
        /\ serverOnline
        /\ activeFile' # NoFile
        /\ vault[MapPath(activeFile')].kind = "absent")
       => /\ inv'[p].pc = "done"
          /\ inv'[p].notices = <<NoticeNoMap(FileName(activeFile'))>>
          /\ inv'[p].requests = 0
          /\ inv'[p].attempts = <<>>
          /\ vault' = vault
     ]_vars

\* a restore of a/n1.md has ended with "no map found", and there is neither
\* a map nor a restored artifact
MapAbsentRestoreWitness ==
  \E p \in Procs :
    /\ inv[p].op = "restore"
    /\ inv[p].pc = "done"
    /\ inv[p].entryOnline
    /\ inv[p].notices = <<NoticeNoMap("n1.md")>>
    /\ vault[MapPath(inv[p].file)] = Absent
    /\ vault[RestoredPath(inv[p].file)] = Absent

\* C8: when restoreCurrentNote finds that the map file cannot be read or
\* parsed, it ends with the "map corrupted" notice: it has sent no request,
\* has called saveVaultFile for nothing, and has changed no file.
CorruptMapRestore ==
  [][\A p \in Procs :
       (/\ inv[p].op = "restore"
        /\ inv[p].pc = "readMap"
        /\ inv'[p] # inv[p]
        /\ vault[MapPath(inv[p].file)].kind # "map")
       => /\ inv'[p].pc = "done"
          /\ inv'[p].notices = <<NoticeMapCorrupted>>
          /\ inv'[p].requests = 0
          /\ inv'[p].attempts = <<>>
          /\ vault' = vault
     ]_vars

\* a restore has ended with "map corrupted" on a corrupt map file, and there
\* is no restored artifact
CorruptMapRestoreWitness ==
  \E p \in Procs :
    /\ inv[p].op = "restore"
    /\ inv[p].pc = "done"
    /\ inv[p].notices = <<NoticeMapCorrupted>>
    /\ vault[MapPath(inv[p].file)] = Corrupt
    /\ vault[RestoredPath(inv[p].file)] = Absent

\* C9: every step of a redactFile up to and including the failure of its
\* detect request changes no file, and the invocation that ends on that
\* failure has called saveVaultFile for nothing.
DetectFailureWritesNothing ==
  [][\A p \in Procs :
       (/\ inv'[p].op = "redactFile"
        /\ inv'[p] # inv[p]
        /\ inv'[p].pc \in {"read", "request", "done"}
        /\ inv[p].pc \in {"idle", "read", "request"})
       => /\ vault' = vault
          /\ inv'[p].attempts = <<>>
     ]_vars

\* a redactFile has ended on the failure of its detect request, and the
\* vault has neither a redacted artifact nor a map
DetectFailureWitness ==
  \E p \in Procs :
    /\ inv[p].op = "redactFile"
    /\ inv[p].pc = "done"
    /\ inv[p].requests = 1
    /\ inv[p].notices = <<NoticeOffline>>
    /\ vault[RedactedPath(inv[p].file)] = Absent
    /\ vault[MapPath(inv[p].file)] = Absent

\* C10: the cached state is OFFLINE until something has written it, ONLINE
\* right after a probe that succeeded and OFFLINE right after a probe that
\* failed; onload goes on after its first probe whatever the outcome (the
\* probe does not raise): it leaves "loading" when the probe ends, the
\* state has then been written, and the polling timer runs while the plugin
\* is active.
HealthStateMachine ==
  /\ healthSrc = "init" => ~serverOnline
  /\ healthSrc = "probe_up" => serverOnline
  /\ healthSrc = "probe_down" => ~serverOnline
  /\ lifecycle = "loading" => (settingsWait \/ loadWait)
  /\ (lifecycle \in {"active", "unloaded"} /\ ~settingsWait /\ ~loadWait)
       => healthSrc # "init"
  /\ lifecycle = "active" => timers = 1

\* a probe has failed after the server had been online long enough for an
\* operation to be accepted
HealthStateMachineWitness ==
  /\ healthSrc = "probe_down"
  /\ lifecycle = "active"
  /\ \E p \in Procs : inv[p].entryOnline

\* C11: when the command "Check Redactor server status" has shown its
\* diagnostic, the cached health state is the outcome of its probe: ONLINE
\* after the "online" diagnostic, OFFLINE after the "offline" one.
ManualCheckUpdatesState ==
  [][\A p \in Procs :
       (/\ inv[p].op = "checkServerStatus"
        /\ inv[p].pc = "status"
        /\ inv'[p].pc = "done")
       => serverOnline' = (inv'[p].notices # <<NoticeServerOffline>>)
     ]_vars

\* C12: a redactFile with response R writes R.redacted_text as the content
\* of the redacted artifact, replacing what was there, and then a map whose
\* tokens are R.map exactly, whatever map was there; when nothing else is
\* in flight, the artifact still has that content when the map is written.
RedactFileReplaces ==
  [][\A p \in Procs :
       inv[p].op = "redactFile" =>
         /\ (inv[p].pc = "saveRedacted" /\ inv'[p].pc = "saveMap") =>
              vault'[RedactedPath(inv[p].file)] =
                TextContent(Detect(inv[p].text).redacted_text)
         /\ (inv[p].pc = "saveMap" /\ inv'[p].pc = "open") =>
              /\ vault'[MapPath(inv[p].file)].kind = "map"
              /\ vault'[MapPath(inv[p].file)].tokens = Detect(inv[p].text).map
              /\ Alone(p) =>
                   vault'[RedactedPath(inv[p].file)] =
                     TextContent(Detect(inv[p].text).redacted_text)
     ]_vars

\* the map and the artifact that a redactFile of "John met Jane" had left
\* have been replaced by those of a redactFile of a note without entities:
\* no token of the earlier map is left
RedactFileReplacesWitness ==
  /\ RedactSucceeded(1, <<"a", "n1.md">>)
  /\ inv[1].quiet
  /\ RedactSucceeded(2, <<"b", "n1.md">>)
  /\ Alone(2)
  /\ vault[MapPath(<<"b", "n1.md">>)] = MapContent("n1.md", EmptyMap)
  /\ vault[RedactedPath(<<"b", "n1.md">>)] = TextContent(<< "see", "you" >>)

\* C13: a step of an orchestrator that works on source note f changes
\* neither the map nor the redacted artifact of another source note d.
OneMapPerDocument ==
  [][\A p \in Procs, d \in Docs :
       (/\ inv[p].op \in Orchestrators
        /\ inv[p].file \in Docs \ {d}
        /\ inv'[p] # inv[p])
       => /\ vault'[MapPath(d)] = vault[MapPath(d)]
          /\ vault'[RedactedPath(d)] = vault[RedactedPath(d)]
     ]_vars

\* C14: when redactSelectedText, with nothing else in flight, writes the map
\* of a note whose map file was corrupt, the persisted map has exactly the
\* entries of the new fragment, and one of its notices says more than the
\* count (which is all it reports when the map was absent).
CorruptMapVisible ==
  [][\A p \in Procs :
       (/\ inv[p].op = "redactSelectedText"
        /\ inv[p].pc = "saveMap"
        /\ inv'[p].pc = "done"
        /\ inv'[p].notices # <<NoticeMapSaveFailed>>
        /\ Alone(p)
        /\ vault[MapPath(inv[p].file)].kind = "corrupt")
       => /\ vault'[MapPath(inv[p].file)] =
               MapContent(FileName(inv[p].file), inv[p].resp.map)
          /\ \E i \in 1..Len(inv'[p].notices) :
               inv'[p].notices[i] \notin CountNotices
     ]_vars

\* the notices that report a failure or a refusal
ErrorNotices ==
  { NoticeOffline, NoticeNoActiveFile, NoticeCouldNotRead("n1.md"),
    NoticeCouldNotSave, NoticeNoMap("n1.md"), NoticeMapCorrupted,
    NoticeCouldNotSaveRestored, NoticeNoSelection, NoticeMapSaveFailed,
    NoticeServerOffline, NoticeNotLocalhost }

\* the last notice of an invocation record
LastNotice(r) == r.notices[Len(r.notices)]

\* C15: when redactFile or redactSelectedText reports on a detect response,
\* the report is the "no entities found" one exactly when the entity counts
\* of the response sum to zero, and it is none of the error notices.
ZeroEntityReport ==
  [][\A p \in Procs :
       /\ (/\ inv[p].op = "redactFile"
           /\ inv[p].pc = "saveMap"
           /\ inv'[p].pc = "open")
          => /\ (Total(Detect(inv[p].text).entity_counts) = 0)
                  <=> (LastNotice(inv'[p]) = "Redacted: no entities found")
             /\ LastNotice(inv'[p]) \notin ErrorNotices
       /\ (/\ inv[p].op = "redactSelectedText"
           /\ inv[p].pc = "saveMap"
           /\ inv'[p].pc = "done"
           /\ LastNotice(inv'[p]) # NoticeMapSaveFailed)
          => /\ (Total(Detect(inv[p].text).entity_counts) = 0)
                  <=> (LastNotice(inv'[p]) = "No entities found in selection")
             /\ LastNotice(inv'[p]) \notin ErrorNotices
     ]_vars

\* a redactFile of a note without entities and a redactSelectedText of a
\* selection without entities have both reported "no entities found"
ZeroEntityReportWitness ==
  /\ inv[1].op = "redactFile"
  /\ inv[1].pc = "done"
  /\ inv[1].text = << "see", "you" >>
  /\ inv[1].notices = << "Redacted: no entities found" >>
  /\ inv[2].op = "redactSelectedText"
  /\ inv[2].pc = "done"
  /\ inv[2].text = << "call" >>
  /\ inv[2].notices = << "No entities found in selection" >>

\* C16: an orchestrator invocation sends at most one detect or restore
\* request and calls saveVaultFile at most once for a path; the step in
\* which it reports a failure ends it, and an invocation that has ended
\* does nothing more.
NoRetry ==
  [][\A p \in Procs :
       inv'[p].op \in Orchestrators =>
         /\ inv'[p].requests <= 1
         /\ \A i, j \in 1..Len(inv'[p].attempts) :
              inv'[p].attempts[i] = inv'[p].attempts[j] => i = j
         /\ (/\ Len(inv'[p].notices) > Len(inv[p].notices)
             /\ LastNotice(inv'[p]) \in ErrorNotices)
            => inv'[p].pc = "done"
         /\ inv[p].pc = "done" => inv'[p] = inv[p]
     ]_vars

\* one redactFile has ended on the failure of its request and another on
\* the failure of its first write, each after one request
NoRetryWitness ==
  /\ inv[1].op = "redactFile"
  /\ inv[1].pc = "done"
  /\ inv[1].requests = 1
  /\ inv[1].notices = <<NoticeOffline>>
  /\ inv[2].op = "redactFile"
  /\ inv[2].pc = "done"
  /\ inv[2].requests = 1
  /\ inv[2].attempts = << RedactedPath(inv[2].file) >>
  /\ inv[2].notices = <<NoticeCouldNotSave>>

\* the host of the URL is localhost or 127.0.0.1: the host atom is followed
\* by nothing, by a port or by a path
IsLoopback(url) ==
  /\ Len(url) >= 2
  /\ url[1] = "http://"
  /\ url[2] \in {"localhost", "127.0.0.1"}
  /\ Len(url) >= 3 => url[3] \in {":8765", "/"}

\* C17: when the "Server URL" field sets an address whose host is not a
\* loopback host, the handler shows the warning.
NonLocalUrlWarned ==
  [][\A p \in Procs :
       (/\ inv[p].pc = "idle"
        /\ inv'[p].op = "setServerUrl"
        /\ ~IsLoopback(serverUrl'))
       => \E i \in 1..Len(inv'[p].notices) :
            inv'[p].notices[i] = NoticeNotLocalhost
     ]_vars

\* C18: every orchestrator invocation ends, whatever fails among its read,
\* its request and its writes, and has then shown exactly one notice, the
\* success report or one failure notice.
Terminates ==
  \A p \in Procs :
    (inv[p].op \in Orchestrators) ~>
      (inv[p].pc = "done" /\ Len(inv[p].notices) = 1)

\* C19: there is never more than one polling timer; there is none before
\* onload has ended its first probe and none once the plugin is unloaded,
\* and there is exactly one while the plugin is active.
PollingTimerLifecycle ==
  /\ timers <= 1
  /\ lifecycle \in {"new", "inert", "loading", "unloaded"} => timers = 0
  /\ lifecycle = "active" => timers = 1

\* C20: at the moment an orchestrator sends its detect or restore request,
\* the cached health state is ONLINE.
NoRequestWhileOffline ==
  [][\A p \in Procs :
       (/\ inv'[p].op \in Orchestrators
        /\ inv'[p].requests > inv[p].requests)
       => serverOnline
     ]_vars

\* C21: when a redactSelectedText that has replaced the selection ends,
\* every token of its fragment is a key of the persisted map of the note,
\* with the fragment's value.
InlineReversible ==
  [][\A p \in Procs :
       (/\ inv'[p].op = "redactSelectedText"
        /\ inv[p].pc # "done"
        /\ inv'[p].pc = "done"
        /\ inv'[p].replaced)
       => \A t \in DOMAIN inv'[p].resp.map :
            /\ t \in DOMAIN TokensOf(vault'[MapPath(inv'[p].file)])
            /\ TokensOf(vault'[MapPath(inv'[p].file)])[t] = inv'[p].resp.map[t]
     ]_vars

\* C22: a step of restoreCurrentNote changes no file but the restored
\* artifact of its note (no map file in particular), and changes that one
\* only in the step that follows the restore response.
RestoreReadOnly ==
  [][\A p \in Procs :
       (inv'[p].op = "restore" /\ inv'[p] # inv[p]) =>
         /\ \A f \in Paths \ {RestoredPath(inv'[p].file)} :
              vault'[f] = vault[f]
         /\ vault' # vault =>
              /\ inv[p].pc = "saveRestored"
              /\ inv[p].requests = 1
              /\ vault'[RestoredPath(inv[p].file)] =
                   TextContent(Restore(inv[p].text, inv[p].existing))
     ]_vars

\* a restore has written the restored artifact and the map it has read is
\* still in the vault as it was read
RestoreReadOnlyWitness ==
  \E p \in Procs :
    /\ inv[p].op = "restore"
    /\ inv[p].pc = "done"
    /\ inv[p].notices = <<NoticeRestored("n1.md")>>
    /\ DOMAIN inv[p].existing # {}
    /\ vault[MapPath(inv[p].file)] = MapContent("n1.md", inv[p].existing)
    /\ vault[RestoredPath(inv[p].file)] = TextContent(inv[p].restored)

\* C23: a map file that exists (readable or not) exists after every step.
MapsNeverDeleted ==
  [][\A f \in MapFiles :
       vault[f].kind # "absent" => vault'[f].kind # "absent"
     ]_vars

\* the map that a redactFile has created is still there after an inline
\* redaction of the same note has gone through it
MapsNeverDeletedWitness ==
  /\ RedactSucceeded(1, <<"a", "n1.md">>)
  /\ SelectSucceeded(2)
  /\ inv[2].existing = Detect(SourceText(<<"a", "n1.md">>)).map
  /\ vault[MapPath(<<"a", "n1.md">>)].kind = "map"

\* the entity-count summary of a redactFile is among its notices
SummaryShown(r) ==
  \E i \in 1..Len(r.notices) :
    r.notices[i] = buildCountSummary(r.resp.entity_counts)

\* C24: in every step of a redactFile, a write to the vault is the write of
\* the redacted artifact (first) or, after it, of the map; the summary is
\* shown only in the step in which the second write, that of the map, has
\* succeeded, and once it has started it opens no tab but that of the
\* artifact, and only after the summary; when a write fails
\* the only notice is the persistence-failure one, no summary is shown and
\* the vault is left as it is (nothing is rolled back).
RedactFileOrder ==
  [][\A p \in Procs :
       (inv'[p].op = "redactFile" /\ inv'[p] # inv[p]) =>
         /\ vault' # vault =>
              \/ /\ inv[p].pc = "saveRedacted" /\ inv'[p].pc = "saveMap"
                 /\ inv[p].attempts = << RedactedPath(inv[p].file) >>
                 /\ vault' = [vault EXCEPT ![RedactedPath(inv[p].file)] =
                                TextContent(inv[p].resp.redacted_text)]
                 /\ inv'[p].notices = <<>>
              \/ /\ inv[p].pc = "saveMap" /\ inv'[p].pc = "open"
                 /\ inv[p].attempts =
                      << RedactedPath(inv[p].file), MapPath(inv[p].file) >>
                 /\ vault' = [vault EXCEPT ![MapPath(inv[p].file)] =
                      MapContent(FileName(inv[p].file), inv[p].resp.map)]
         /\ (SummaryShown(inv'[p]) /\ ~SummaryShown(inv[p])) =>
              /\ inv[p].pc = "saveMap" /\ inv'[p].pc = "open"
              /\ vault'[MapPath(inv[p].file)] =
                   MapContent(FileName(inv[p].file), inv[p].resp.map)
         /\ (inv[p].pc # "idle" /\ (activeFile' # activeFile \/ editor' # editor))
              => /\ inv[p].pc = "open"
                 /\ SummaryShown(inv[p])
                 /\ activeFile' = RedactedPath(inv[p].file)
         /\ (inv[p].pc \in {"saveRedacted", "saveMap"} /\ inv'[p].pc = "done")
              => /\ inv'[p].notices = << NoticeCouldNotSave >>
                 /\ vault' = vault
     ]_vars

\* the write of the map has failed after the artifact was written: the
\* artifact stays, there is no map, and the only notice is the failure one
RedactFileOrderWitness ==
  \E p \in Procs :
    /\ inv[p].op = "redactFile" /\ inv[p].pc = "done"
    /\ inv[p].file = <<"a", "n1.md">>
    /\ inv[p].attempts = << RedactedPath(inv[p].file), MapPath(inv[p].file) >>
    /\ inv[p].notices = << NoticeCouldNotSave >>
    /\ vault[RedactedPath(inv[p].file)] =
         TextContent(inv[p].resp.redacted_text)
    /\ vault[MapPath(inv[p].file)] = Absent

\* C25: once the first probe has ended, the status bar text and the ribbon
\* colour show online exactly when serverOnline is TRUE, in every state,
\* whether a probe or a failed request wrote serverOnline last.
IndicatorAgrees ==
  healthSrc # "init" =>
    /\ statusBar \in {"online", "offline"}
    /\ statusBar = "online" <=> serverOnline
    /\ ribbon \in {"green", "red"}
    /\ ribbon = "green" <=> serverOnline

\* a failed request has taken the state from ONLINE to OFFLINE and the
\* indicator has followed
IndicatorAgreesWitness ==
  /\ healthSrc = "request_failed"
  /\ ~serverOnline
  /\ statusBar = "offline" /\ ribbon = "red"
  /\ \E p \in Procs : /\ inv[p].op \in Orchestrators
                       /\ inv[p].entryOnline
                       /\ inv[p].notices = << NoticeOffline >>

\* the step ends the orchestrator invocation p on the failure of its request
RequestFails(p) ==
  /\ inv[p].op \in Orchestrators
  /\ inv[p].pc = "request"
  /\ inv'[p].pc = "done"
  /\ inv'[p].resp = inv[p].resp
  /\ inv'[p].notices = Append(inv[p].notices, NoticeOffline)

\* C26: the step in which the detect or restore request of an orchestrator
\* fails ends the invocation with serverOnline FALSE; an orchestrator
\* invoked while serverOnline is FALSE is refused (ended at once, no
\* request, the offline notice); and serverOnline goes from FALSE to TRUE
\* only in a step that is a successful updateServerStatus probe, in which no
\* orchestrator invocation moves.
FailureForcesOffline ==
  [][/\ \A p \in Procs : RequestFails(p) => ~serverOnline'
     /\ \A p \in Procs :
          (/\ inv[p].pc = "idle" /\ inv'[p].op \in Orchestrators
           /\ ~serverOnline)
          => /\ inv'[p].pc = "done"
             /\ inv'[p].requests = 0
             /\ inv'[p].notices = << NoticeOffline >>
             /\ ~serverOnline'
     /\ (~serverOnline /\ serverOnline') =>
          /\ healthSrc' = "probe_up"
          /\ \A p \in Procs :
               (inv[p].op \in Orchestrators \/ inv'[p].op \in Orchestrators)
               => inv'[p] = inv[p]
     /\ \A p \in Procs :
          (inv'[p].op \in Orchestrators /\ inv'[p] # inv[p])
          => (serverOnline' => serverOnline)
    ]_vars

\* the request of the first invocation has failed, and the next invocation,
\* made while the state was still OFFLINE, has been refused
FailureForcesOfflineWitness ==
  /\ healthSrc = "request_failed"
  /\ ~serverOnline
  /\ inv[1].op \in Orchestrators /\ inv[1].pc = "done"
  /\ inv[1].entryOnline /\ inv[1].requests = 1
  /\ inv[1].notices = << NoticeOffline >>
  /\ inv[2].op \in Orchestrators /\ inv[2].pc = "done"
  /\ ~inv[2].entryOnline /\ inv[2].requests = 0
  /\ inv[2].notices = << NoticeOffline >>

\* the editor holds what the command was run on: the text is still selected
\* (or there was none), nothing has been inserted in its place
SelectionIntact(e) == e.selected <=> (e.text # <<>>)

\* C27: the step in which redactSelectedText returns for an empty selection
\* or for a missing file, and the step in which its detect request fails,
\* leave every file of the vault (the map of the note among them) and the
\* text in the editor as they are; so does the step that sends the request.
SelectFailureFrame ==
  [][\A p \in Procs :
       /\ (inv[p].pc = "idle" /\ inv'[p].op = "redactSelectedText") =>
            /\ vault' = vault
            /\ ~inv'[p].replaced
            /\ SelectionIntact(editor')
            /\ (inv'[p].pc = "done" /\ inv'[p].entryOnline) =>
                 /\ inv'[p].requests = 0
                 /\ \/ /\ inv'[p].notices = << NoticeNoSelection >>
                       /\ editor'.text = <<>>
                    \/ /\ inv'[p].notices = << NoticeNoActiveFile >>
                       /\ editor'.text # <<>>
                       /\ activeFile' = NoFile
       /\ (/\ inv[p].op = "redactSelectedText" /\ inv[p].pc = "request"
           /\ inv'[p].pc = "done"
           /\ LastNotice(inv'[p]) = NoticeOffline) =>
            /\ vault' = vault
            /\ editor' = editor
            /\ ~inv'[p].replaced
     ]_vars

\* invocation 1 was run with nothing selected; invocation 2 was run on
\* "Jane" in a/n1.md, whose map exists, and its request has failed: the
\* text is still selected and the map is the one of the earlier redaction
SelectFailureFrameWitness ==
  /\ inv[1].op = "redactSelectedText" /\ inv[1].pc = "done"
  /\ inv[1].notices = << NoticeNoSelection >>
  /\ inv[2].op = "redactSelectedText" /\ inv[2].pc = "done"
  /\ inv[2].file = <<"a", "n1.md">>
  /\ inv[2].requests = 1 /\ ~inv[2].replaced
  /\ inv[2].notices = << NoticeOffline >>
  /\ editor = [text |-> <<"Jane">>, selected |-> TRUE]
  /\ vault[MapPath(<<"a", "n1.md">>)] = MapContent("n1.md", PriorResponse.map)
====
